---- MODULE Spec2Model ----
(***************************************************************************)
(* A model of the tranche crate: Tranche<'a, T> (a start/end pointer pair  *)
(* over a borrowed slice), BasedTranche<'a, T> (a tranche plus a base      *)
(* pointer), the integer takers of BufTranche, and the std::io bridge.     *)
(*                                                                         *)
(* Pointers are addresses, i.e. naturals modulo Modulus (the width of      *)
(* usize, scaled down to AddrBits bits).  The element type T is one of     *)
(* "unit" (zero-sized), "u8" and "usize" (8 bytes).                        *)
(***************************************************************************)
EXTENDS Integers, Sequences, FiniteSets, TLC

VARIABLES elem, endian, slice, ptr, cur, last, hist

vars == <<elem, endian, slice, ptr, cur, last, hist>>

(***************************************************************************)
(* Bounds of the model.                                                    *)
(***************************************************************************)
\* longest slice a tranche is constructed over
MaxLen == 3
\* longest byte buffer of the byte-oriented specification
MaxBuf == 8
\* width of usize / of a pointer, in bits
AddrBits == 6

RECURSIVE Pow2(_)
Pow2(n) == IF n = 0 THEN 1 ELSE 2 * Pow2(n - 1)

Modulus == Pow2(AddrBits)

(***************************************************************************)
(* Element types and memory.                                               *)
(***************************************************************************)
ElemTypes == {"unit", "u8", "usize"}

\* mem::size_of::<T>()
size_of(ty) ==
    CASE ty = "unit" -> 0
      [] ty = "u8" -> 1
      [] ty = "i8" -> 1
      [] ty = "u16" -> 2
      [] ty = "i16" -> 2
      [] ty = "u32" -> 4
      [] ty = "i32" -> 4
      [] ty = "u64" -> 8
      [] ty = "i64" -> 8
      [] ty = "usize" -> 8
      [] ty = "isize" -> 8
      [] ty = "u128" -> 16
      [] ty = "i128" -> 16

\* the values the elements of the slices of Spec are drawn from
Vals(ty) ==
    CASE ty = "unit" -> {"unit"}
      [] ty = "u8" -> {1, 2}
      [] ty = "usize" -> {10, 40}

\* the byte buffers of SpecBuf are made of pairwise distinct bytes, so that
\* no two orders of the bytes read give the same integer: 1, 2, 3, ... (top
\* bit clear), 255, 254, 253, ... (top bit set), and 1, 254, 3, 252, ...
Patterns == {"low", "high", "mixed"}

ByteAt(pat, i) ==
    CASE pat = "low" -> i
      [] pat = "high" -> 256 - i
      [] pat = "mixed" -> IF i % 2 = 1 THEN i ELSE 256 - i

SeqsUpTo(S, n) == UNION {[1..k -> S] : k \in 0..n}

\* the addresses slice.as_ptr() may return: aligned and non-null; for a
\* zero-sized T any dangling address, one of which makes start + len wrap
Ptrs(ty) ==
    CASE ty = "unit" -> {1, Modulus - 1}
      [] ty = "u8" -> {11}
      [] ty = "usize" -> {8}

Min(a, b) == IF a <= b THEN a ELSE b

wrapping_add(a, b) == (a + b) % Modulus
wrapping_sub(a, b) == (a - b + Modulus * (1 + b \div Modulus)) % Modulus

\* the element stored at address a of the borrowed slice; reading anywhere
\* else is undefined behaviour, marked "undef"
Deref(a) ==
    IF size_of(elem) = 0
    THEN "unit"
    ELSE IF /\ a >= ptr
            /\ a < ptr + Len(slice) * size_of(elem)
            /\ (a - ptr) % size_of(elem) = 0
         THEN slice[(a - ptr) \div size_of(elem) + 1]
         ELSE "undef"

(***************************************************************************)
(* core.rs: Tranche                                                        *)
(***************************************************************************)
ptr_distance(start, end) ==
    LET diff == wrapping_sub(end, start)
        size == size_of(elem)
    IN IF size = 0 THEN diff ELSE diff \div size

\* the end pointer computed by element arithmetic for every T
Tranche_new_no_zst(p, n) ==
    [start |-> p, end |-> p + n * size_of(elem)]

Tranche_new(p, n) ==
    [start |-> p,
     end |-> IF size_of(elem) = 0
             THEN wrapping_add(p, n)
             ELSE p + n * size_of(elem)]

Tranche_len(t) == ptr_distance(t.start, t.end)

Tranche_is_empty(t) == t.start = t.end

\* slice::from_raw_parts(self.start, self.len())
Tranche_as_slice(t) ==
    [i \in 1..Tranche_len(t) |-> Deref(t.start + (i - 1) * size_of(elem))]

Tranche_as_ptr(t) == t.start

\* a pre-increment: the pointer returned is the one after the advance
pre_inc_start(t, offset) ==
    LET self == IF size_of(elem) = 0
                THEN [t EXCEPT !.end = wrapping_sub(t.end, offset)]
                ELSE [t EXCEPT !.start = t.start + offset * size_of(elem)]
    IN [self |-> self, old |-> self.start]

\* the tranche after the call (self) and the pointer returned (old)
post_inc_start(t, offset) ==
    [self |-> IF size_of(elem) = 0
              THEN [t EXCEPT !.end = wrapping_sub(t.end, offset)]
              ELSE [t EXCEPT !.start = t.start + offset * size_of(elem)],
     old |-> t.start]

UnexpectedEndError(needed, len) == [needed |-> needed, len |-> len]

\* the err field of a call that returned no error
NoErr == UnexpectedEndError(0, 0)

\* [ok, self (the tranche after the call, &mut self), err or ref (the &T
\* returned)]
Tranche_take_first(t) ==
    IF Tranche_is_empty(t)
    THEN [ok |-> FALSE, self |-> t, err |-> UnexpectedEndError(1, 0)]
    ELSE LET r == post_inc_start(t, 1)
         IN [ok |-> TRUE, self |-> r.self,
             ref |-> [ptr |-> r.old, val |-> Deref(r.old)]]

\* a take_front that does not compare n with the length
Tranche_take_front_unchecked(t, n) ==
    LET r == post_inc_start(t, n)
    IN [ok |-> TRUE, self |-> r.self,
        ret |-> [start |-> r.old, end |-> r.self.start]]

\* an underrun that consumes what is left before it reports the error
Tranche_take_front_partial(t, n) ==
    LET len == Tranche_len(t)
    IN IF n > len
       THEN [ok |-> FALSE, self |-> post_inc_start(t, len).self,
             err |-> UnexpectedEndError(n, len)]
       ELSE LET r == post_inc_start(t, n)
            IN [ok |-> TRUE, self |-> r.self,
                ret |-> [start |-> r.old, end |-> r.self.start]]

\* [ok, self (the tranche after the call), err or ret (the prefix returned)]
Tranche_take_front(t, n) ==
    LET len == Tranche_len(t)
    IN IF n > len
       THEN [ok |-> FALSE, self |-> t, err |-> UnexpectedEndError(n, len)]
       ELSE LET r == post_inc_start(t, n)
            IN [ok |-> TRUE, self |-> r.self,
                ret |-> [start |-> r.old, end |-> r.self.start]]

Tranche_clone(t) == t

(***************************************************************************)
(* core.rs: BasedTranche                                                   *)
(***************************************************************************)
\* the base fixed at the start pointer for every T
BasedTranche_from_start(t) == [inner |-> t, base |-> t.start]

\* From<Tranche<'a, T>> for BasedTranche<'a, T>
BasedTranche_from(t) ==
    [inner |-> t,
     base |-> IF size_of(elem) = 0 THEN t.end ELSE t.start]

\* From<BasedTranche<'a, T>> for Tranche<'a, T>
Tranche_from(b) == b.inner

BasedTranche_new(p, n) == BasedTranche_from(Tranche_new(p, n))

BasedTranche_len(b) == Tranche_len(b.inner)

BasedTranche_is_empty(b) == Tranche_is_empty(b.inner)

BasedTranche_as_slice(b) == Tranche_as_slice(b.inner)

\* the offset measured from base to start for every T
BasedTranche_offset_no_zst(b) == ptr_distance(b.base, b.inner.start)

BasedTranche_offset(b) ==
    IF size_of(elem) = 0
    THEN ptr_distance(b.inner.end, b.base)
    ELSE ptr_distance(b.base, b.inner.start)

BasedTranche_take_first(b) ==
    LET r == Tranche_take_first(b.inner)
    IN IF r.ok
       THEN [ok |-> TRUE, self |-> [b EXCEPT !.inner = r.self], ref |-> r.ref]
       ELSE [ok |-> FALSE, self |-> [b EXCEPT !.inner = r.self], err |-> r.err]

BasedTranche_take_front(b, n) ==
    LET r == Tranche_take_front(b.inner, n)
    IN IF r.ok
       THEN [ok |-> TRUE, self |-> [b EXCEPT !.inner = r.self],
             ret |-> [inner |-> r.ret, base |-> b.base]]
       ELSE [ok |-> FALSE, self |-> [b EXCEPT !.inner = r.self], err |-> r.err]

BasedTranche_clone(b) == [inner |-> Tranche_clone(b.inner), base |-> b.base]

(***************************************************************************)
(* iter.rs: Iterator for Tranche and BasedTranche.  An Option is a         *)
(* sequence: <<x>> is Some(x) and <<>> is None.                            *)
(***************************************************************************)
Some(x) == <<x>>
None == <<>>

\* a next that yields the first element and leaves the tranche where it was
Tranche_next_peek(t) ==
    LET r == Tranche_take_first(t)
    IN [self |-> t, item |-> IF r.ok THEN Some(r.ref) ELSE None]

\* self.take_first().ok(): [self (the tranche after the call), item]
Tranche_next(t) ==
    LET r == Tranche_take_first(t)
    IN [self |-> r.self, item |-> IF r.ok THEN Some(r.ref) ELSE None]

Tranche_size_hint(t) ==
    LET len == Tranche_len(t)
    IN <<len, Some(len)>>

BasedTranche_next(b) ==
    LET r == Tranche_next(b.inner)
    IN [self |-> [b EXCEPT !.inner = r.self], item |-> r.item]

BasedTranche_size_hint(b) == Tranche_size_hint(b.inner)

(***************************************************************************)
(* buf.rs: the integer takers of BufTranche and BasedBufTranche.           *)
(*                                                                         *)
(* An integer of a fixed-width type is represented by its type and its     *)
(* bytes, most significant first (two's complement for the signed types):  *)
(* values of the 64 and 128 bit types have no other representation here.   *)
(* int_value gives the number, where it fits.                              *)
(***************************************************************************)
IntTypes ==
    {"u16", "i16", "u32", "i32", "u64", "i64", "u128", "i128", "usize", "isize"}

Orders == {"native", "little", "big"}

Signed(ty) == ty \in {"i8", "i16", "i32", "i64", "i128", "isize"}

Reverse(s) == [i \in 1..Len(s) |-> s[Len(s) + 1 - i]]

from_be_bytes(ty, bytes) == [ty |-> ty, be |-> bytes]

from_le_bytes(ty, bytes) == [ty |-> ty, be |-> Reverse(bytes)]

from_ne_bytes(ty, bytes) ==
    IF endian = "little" THEN from_le_bytes(ty, bytes) ELSE from_be_bytes(ty, bytes)

\* the byte order of the taker is ignored: every taker reads big-endian
from_bytes_always_be(order, ty, bytes) == from_be_bytes(ty, bytes)

\* $ty::$from of the three takers generated for each type
from_bytes(order, ty, bytes) ==
    CASE order = "native" -> from_ne_bytes(ty, bytes)
      [] order = "little" -> from_le_bytes(ty, bytes)
      [] order = "big" -> from_be_bytes(ty, bytes)

RECURSIVE Horner(_, _)
Horner(acc, digits) ==
    IF digits = <<>> THEN acc ELSE Horner(acc * 256 + Head(digits), Tail(digits))

\* the number an integer is, for the integers that are within -2^31 .. 2^31 - 1
int_value(x) ==
    LET top == IF Signed(x.ty) /\ x.be[1] >= 128 THEN x.be[1] - 256 ELSE x.be[1]
    IN Horner(top, Tail(x.be))

\* [ok, self (the tranche after the call), err or int (the integer returned)]
BufTranche_take_int(t, ty, order) ==
    LET SIZE == size_of(ty)
        r == Tranche_take_front(t, SIZE)
    IN IF ~r.ok
       THEN [ok |-> FALSE, self |-> r.self, err |-> r.err]
       ELSE LET p == Tranche_as_ptr(r.ret)
                bytes == [i \in 1..SIZE |-> Deref(p + (i - 1))]
            IN [ok |-> TRUE, self |-> r.self, int |-> from_bytes(order, ty, bytes)]

BasedBufTranche_take_int(b, ty, order) ==
    LET r == BufTranche_take_int(b.inner, ty, order)
    IN IF r.ok
       THEN [ok |-> TRUE, self |-> [b EXCEPT !.inner = r.self], int |-> r.int]
       ELSE [ok |-> FALSE, self |-> [b EXCEPT !.inner = r.self], err |-> r.err]

(***************************************************************************)
(* std.rs: io::Read and io::BufRead.  A panic is the result "Panic"; the   *)
(* tranche is left as the call had made it when it panicked.               *)
(***************************************************************************)
cmp_max(a, b) == IF b >= a THEN b ELSE a

\* buf is the destination, as long as its capacity; [res, self, n, buf]
BufTranche_read(t, buf) ==
    LET r == Tranche_take_front(t, cmp_max(Tranche_len(t), Len(buf)))
    IN IF ~r.ok
       THEN \* unwrap() of the Err
            [res |-> "Panic", self |-> r.self, n |-> 0, buf |-> buf]
       ELSE LET s == Tranche_as_slice(r.ret)
                n == Len(s)
            IN IF n = 1
               THEN IF Len(buf) = 0
                    THEN \* buf[0] is out of bounds
                         [res |-> "Panic", self |-> r.self, n |-> 0, buf |-> buf]
                    ELSE [res |-> "Ok", self |-> r.self, n |-> n,
                          buf |-> [buf EXCEPT ![1] = s[1]]]
               ELSE IF n > Len(buf)
                    THEN \* buf[..len] is out of bounds
                         [res |-> "Panic", self |-> r.self, n |-> 0, buf |-> buf]
                    ELSE [res |-> "Ok", self |-> r.self, n |-> n,
                          buf |-> [i \in 1..Len(buf) |->
                                     IF i <= n THEN s[i] ELSE buf[i]]]

BasedBufTranche_read(b, buf) ==
    LET r == BufTranche_read(b.inner, buf)
    IN [res |-> r.res, self |-> [b EXCEPT !.inner = r.self], n |-> r.n, buf |-> r.buf]

\* a consume that takes no more than is there
BufTranche_consume_clamped(t, n) ==
    LET r == Tranche_take_front(t, Min(n, Tranche_len(t)))
    IN [res |-> "Ok", self |-> r.self, err |-> NoErr]

\* [res, self, err (the error the panic prints)]
BufTranche_consume(t, n) ==
    LET r == Tranche_take_front(t, n)
    IN IF r.ok
       THEN [res |-> "Ok", self |-> r.self, err |-> NoErr]
       ELSE [res |-> "Panic", self |-> r.self, err |-> r.err]

BasedBufTranche_consume(b, n) ==
    LET r == BufTranche_consume(b.inner, n)
    IN [res |-> r.res, self |-> [b EXCEPT !.inner = r.self], err |-> r.err]

(***************************************************************************)
(* The program state: the view the program is working on (cur), a Tranche *)
(* or a BasedTranche tagged by kind, and the last call with its receiver   *)
(* before the call and its result.  Views share no mutable state, so the   *)
(* views a call returns (prefixes, clones) are followed one at a time: Use *)
(* makes the view just returned the one the program works on.  hist       *)
(* records how cur came to be (origin: built by new, converted by from, or *)
(* split off as a prefix) and how many elements successful calls have      *)
(* removed from it since (taken; firsts counts those removed by            *)
(* take_first).                                                            *)
(***************************************************************************)
IsBased(v) == v.kind = "BasedTranche"

AsTranche(t) == [kind |-> "Tranche", inner |-> t, base |-> 0]
AsBased(b) == [kind |-> "BasedTranche", inner |-> b.inner, base |-> b.base]
Based(v) == [inner |-> v.inner, base |-> v.base]

len(v) == IF IsBased(v) THEN BasedTranche_len(Based(v)) ELSE Tranche_len(v.inner)
is_empty(v) ==
    IF IsBased(v) THEN BasedTranche_is_empty(Based(v)) ELSE Tranche_is_empty(v.inner)
as_slice(v) ==
    IF IsBased(v) THEN BasedTranche_as_slice(Based(v)) ELSE Tranche_as_slice(v.inner)
offset(v) == BasedTranche_offset(Based(v))
size_hint(v) ==
    IF IsBased(v) THEN BasedTranche_size_hint(Based(v)) ELSE Tranche_size_hint(v.inner)

\* take_first / take_front on a view of either kind, results tagged alike
take_first(v) ==
    IF IsBased(v)
    THEN LET r == BasedTranche_take_first(Based(v))
         IN IF r.ok
            THEN [ok |-> TRUE, self |-> AsBased(r.self), ref |-> r.ref]
            ELSE [ok |-> FALSE, self |-> AsBased(r.self), err |-> r.err]
    ELSE LET r == Tranche_take_first(v.inner)
         IN IF r.ok
            THEN [ok |-> TRUE, self |-> AsTranche(r.self), ref |-> r.ref]
            ELSE [ok |-> FALSE, self |-> AsTranche(r.self), err |-> r.err]

take_front(v, n) ==
    IF IsBased(v)
    THEN LET r == BasedTranche_take_front(Based(v), n)
         IN IF r.ok
            THEN [ok |-> TRUE, self |-> AsBased(r.self), ret |-> AsBased(r.ret)]
            ELSE [ok |-> FALSE, self |-> AsBased(r.self), err |-> r.err]
    ELSE LET r == Tranche_take_front(v.inner, n)
         IN IF r.ok
            THEN [ok |-> TRUE, self |-> AsTranche(r.self), ret |-> AsTranche(r.ret)]
            ELSE [ok |-> FALSE, self |-> AsTranche(r.self), err |-> r.err]

Call(op, arg, res, err, out) ==
    [op |-> op, arg |-> arg, pre |-> cur, res |-> res, err |-> err, out |-> out]

Panicked == last.res = "Panic"

InitViews(p, n) ==
    {AsTranche(Tranche_new(p, n)), AsBased(BasedTranche_new(p, n))}

InitLast(v) ==
    [op |-> "new", arg |-> 0, pre |-> v, res |-> "Ok", err |-> NoErr, out |-> v]

Made(origin) == [origin |-> origin, taken |-> 0, firsts |-> 0]

\* no action of Spec reads the target's byte order
Init ==
    /\ elem \in ElemTypes
    /\ endian = "little"
    /\ slice \in SeqsUpTo(Vals(elem), MaxLen)
    /\ ptr \in Ptrs(elem)
    /\ cur \in InitViews(ptr, Len(slice))
    /\ last = InitLast(cur)
    /\ hist = Made("new")

TakeFirst ==
    /\ ~Panicked
    /\ LET r == take_first(cur)
       IN /\ cur' = r.self
          /\ last' = IF r.ok
                     THEN Call("take_first", 1, "Ok", NoErr, r.ref)
                     ELSE Call("take_first", 1, "Err", r.err, <<>>)
          /\ hist' = IF r.ok
                     THEN [hist EXCEPT !.taken = @ + 1, !.firsts = @ + 1]
                     ELSE hist
    /\ UNCHANGED <<elem, endian, slice, ptr>>

TakeFront(n) ==
    /\ ~Panicked
    /\ LET r == take_front(cur, n)
       IN /\ cur' = r.self
          /\ last' = IF r.ok
                     THEN Call("take_front", n, "Ok", NoErr, r.ret)
                     ELSE Call("take_front", n, "Err", r.err, <<>>)
          /\ hist' = IF r.ok THEN [hist EXCEPT !.taken = @ + n] ELSE hist
    /\ UNCHANGED <<elem, endian, slice, ptr>>

\* Iterator::next
IterNext ==
    /\ ~Panicked
    /\ LET r == IF IsBased(cur)
                THEN BasedTranche_next(Based(cur))
                ELSE Tranche_next(cur.inner)
       IN /\ cur' = IF IsBased(cur) THEN AsBased(r.self) ELSE AsTranche(r.self)
          /\ last' = Call("next", 0, "Ok", NoErr, r.item)
          /\ hist' = IF r.item # None
                     THEN [hist EXCEPT !.taken = @ + 1, !.firsts = @ + 1]
                     ELSE hist
    /\ UNCHANGED <<elem, endian, slice, ptr>>

Clone ==
    /\ ~Panicked
    /\ LET c == IF IsBased(cur)
                THEN AsBased(BasedTranche_clone(Based(cur)))
                ELSE AsTranche(Tranche_clone(cur.inner))
       IN last' = Call("clone", 0, "Ok", NoErr, c)
    /\ UNCHANGED <<elem, endian, slice, ptr, cur, hist>>

\* BasedTranche::from(tranche)
IntoBased ==
    /\ ~Panicked
    /\ ~IsBased(cur)
    /\ cur' = AsBased(BasedTranche_from(cur.inner))
    /\ last' = Call("into_based", 0, "Ok", NoErr, cur')
    /\ hist' = Made("from")
    /\ UNCHANGED <<elem, endian, slice, ptr>>

\* Tranche::from(based_tranche)
IntoTranche ==
    /\ ~Panicked
    /\ IsBased(cur)
    /\ cur' = AsTranche(Tranche_from(Based(cur)))
    /\ last' = Call("into_tranche", 0, "Ok", NoErr, cur')
    /\ UNCHANGED <<elem, endian, slice, ptr, hist>>

\* the program goes on with the view the last call returned
Use ==
    /\ ~Panicked
    /\ last.op \in {"take_front", "clone"}
    /\ last.res = "Ok"
    /\ cur' = last.out
    /\ last' = [op |-> "use", arg |-> 0, pre |-> last.out, res |-> "Ok",
                err |-> NoErr, out |-> last.out]
    /\ hist' = IF last.op = "clone" THEN hist ELSE Made("prefix")
    /\ UNCHANGED <<elem, endian, slice, ptr>>

(***************************************************************************)
(* The calls on byte tranches: the integer takers and the std::io bridge.  *)
(* Spec makes the calls of core.rs and iter.rs on every element type, and  *)
(* read and consume on its byte tranches; SpecBuf makes the takers, read   *)
(* and consume on longer byte buffers.                                     *)
(***************************************************************************)
BufSlices == {[i \in 1..k |-> ByteAt(pat, i)] : k \in 0..MaxBuf, pat \in Patterns}

InitBuf ==
    /\ elem = "u8"
    /\ endian \in {"little", "big"}
    /\ slice \in BufSlices
    /\ ptr \in Ptrs(elem)
    /\ cur \in InitViews(ptr, Len(slice))
    /\ last = InitLast(cur)
    /\ hist = Made("new")

TakeInt(ty, order) ==
    /\ ~Panicked
    /\ LET r == IF IsBased(cur)
                THEN BasedBufTranche_take_int(Based(cur), ty, order)
                ELSE BufTranche_take_int(cur.inner, ty, order)
           arg == [ty |-> ty, order |-> order]
       IN /\ cur' = IF IsBased(cur) THEN AsBased(r.self) ELSE AsTranche(r.self)
          /\ last' = IF r.ok
                     THEN Call("take_int", arg, "Ok", NoErr, r.int)
                     ELSE Call("take_int", arg, "Err", r.err, <<>>)
          /\ hist' = IF r.ok THEN [hist EXCEPT !.taken = @ + size_of(ty)] ELSE hist
    /\ UNCHANGED <<elem, endian, slice, ptr>>

\* io::Read::read into a zeroed destination of capacity c
Read(c) ==
    /\ ~Panicked
    /\ LET buf == [i \in 1..c |-> 0]
           r == IF IsBased(cur)
                THEN BasedBufTranche_read(Based(cur), buf)
                ELSE BufTranche_read(cur.inner, buf)
       IN /\ cur' = IF IsBased(cur) THEN AsBased(r.self) ELSE AsTranche(r.self)
          /\ last' = Call("read", c, r.res, NoErr, [n |-> r.n, buf |-> r.buf])
          /\ hist' = [hist EXCEPT !.taken = @ + (len(cur) - len(cur'))]
    /\ UNCHANGED <<elem, endian, slice, ptr>>

\* io::BufRead::consume(n)
Consume(n) ==
    /\ ~Panicked
    /\ LET r == IF IsBased(cur)
                THEN BasedBufTranche_consume(Based(cur), n)
                ELSE BufTranche_consume(cur.inner, n)
       IN /\ cur' = IF IsBased(cur) THEN AsBased(r.self) ELSE AsTranche(r.self)
          /\ last' = Call("consume", n, r.res, r.err, <<>>)
          /\ hist' = [hist EXCEPT !.taken = @ + (len(cur) - len(cur'))]
    /\ UNCHANGED <<elem, endian, slice, ptr>>

\* the values of a usize argument tried: every length, one past it, usize::MAX
Usizes == 0..(MaxLen + 1) \cup {Modulus - 1}

Next ==
    \/ TakeFirst
    \/ IterNext
    \/ \E n \in Usizes : TakeFront(n)
    \/ Clone
    \/ IntoBased
    \/ IntoTranche
    \/ Use
    \/ elem = "u8" /\ \E c \in 0..(MaxLen + 1) : Read(c)
    \/ elem = "u8" /\ \E n \in Usizes : Consume(n)

Spec == Init /\ [][Next]_vars

\* the usize arguments tried on a byte tranche
UsizesBuf == 0..(MaxBuf + 1) \cup {Modulus - 1}

\* what io::BufRead::consume leaves is what take_front leaves, so consume,
\* read and the takers reach every state of a byte tranche
NextBuf ==
    \/ \E ty \in IntTypes, order \in Orders : TakeInt(ty, order)
    \/ \E c \in 0..(MaxBuf + 1) : Read(c)
    \/ \E n \in UsizesBuf : Consume(n)

SpecBuf == InitBuf /\ [][NextBuf]_vars

(***************************************************************************)
(* Properties.                                                             *)
(***************************************************************************)
Prefix(s, k) == SubSeq(s, 1, k)
Drop(s, k) == SubSeq(s, k + 1, Len(s))
Took == last.op \in {"take_first", "take_front"}

\* C1: on a Tranche just constructed over slice, take_front(k) with
\* k <= len(slice) succeeds, the prefix returned holds slice[0..k] and the
\* tranche is left holding slice[k..], so its len() is len(slice) - k.
C1_TakeFrontSplitsSlice ==
    (/\ last.op = "take_front"
     /\ last.pre = AsTranche(Tranche_new(ptr, Len(slice)))
     /\ last.arg <= Len(slice))
    => /\ last.res = "Ok"
       /\ as_slice(last.out) = Prefix(slice, last.arg)
       /\ as_slice(cur) = Drop(slice, last.arg)
       /\ len(cur) = Len(slice) - last.arg

\* C2: take_front(k) with k > len() on any reachable view returns an error
\* with needed() = k and len() = the view's length, and leaves the view as it
\* was: same len(), same as_slice(), same offset() for a based view.
C2_TakeFrontUnderrun ==
    (last.op = "take_front" /\ last.arg > len(last.pre))
    => /\ last.res = "Err"
       /\ last.err.needed = last.arg
       /\ last.err.len = len(last.pre)
       /\ len(cur) = len(last.pre)
       /\ as_slice(cur) = as_slice(last.pre)
       /\ IsBased(last.pre) => offset(cur) = offset(last.pre)
       /\ cur = last.pre

C2_Witness ==
    /\ last.op = "take_front"
    /\ last.res = "Err"
    /\ IsBased(last.pre)
    /\ elem = "usize"
    /\ hist.taken > 0
    /\ len(cur) > 0

\* C3: take_first on a non-empty view returns a reference to the element
\* that was first in as_slice() and leaves the old contents without their
\* first element (len() one less); on an empty view it fails with needed() = 1
\* and len() = 0 and leaves the view as it was.
C3_TakeFirst ==
    last.op = "take_first"
    => IF len(last.pre) > 0
       THEN /\ last.res = "Ok"
            /\ last.out.ptr = last.pre.inner.start
            /\ last.out.val = as_slice(last.pre)[1]
            /\ len(cur) = len(last.pre) - 1
            /\ as_slice(cur) = Tail(as_slice(last.pre))
       ELSE /\ last.res = "Err"
            /\ last.err = UnexpectedEndError(1, 0)
            /\ cur = last.pre

C3_Witness ==
    /\ last.op = "take_first"
    /\ last.res = "Ok"
    /\ elem = "usize"
    /\ hist.taken = 2
    /\ len(cur) > 0
    /\ last.out.val # as_slice(cur)[1]

\* C4: a view made by BasedTranche::new has offset() = 0, and after
\* successful take_first and take_front calls that removed m elements in all
\* offset() = m; so offset() + len() is the length of the slice and no
\* call lowers offset(); for zero-sized, byte and word elements alike.
C4_OffsetCountsTaken ==
    (IsBased(cur) /\ hist.origin = "new")
    => /\ offset(cur) = hist.taken
       /\ offset(cur) + len(cur) = Len(slice)
       /\ last.op = "new" => offset(cur) = 0
       /\ (Took /\ IsBased(last.pre)) => offset(cur) >= offset(last.pre)

C4_Witness ==
    /\ IsBased(cur)
    /\ hist.origin = "new"
    /\ elem = "unit"
    /\ last.op = "take_front"
    /\ last.arg = 2
    /\ hist.firsts = 1
    /\ hist.taken = 3
    /\ offset(cur) = 3

\* C5: for a zero-sized element type, take_front(n) with n <= len() returns
\* a view of exactly n elements (len() = n, empty only when n = 0) and
\* lowers the len() of the view it is called on by n.
C5_ZstPrefixLen ==
    (elem = "unit" /\ last.op = "take_front" /\ last.arg <= len(last.pre))
    => /\ last.res = "Ok"
       /\ len(last.out) = last.arg
       /\ is_empty(last.out) <=> last.arg = 0
       /\ len(cur) = len(last.pre) - last.arg

\* C6: a view constructed over n zero-sized elements reports len() = n; each
\* of n successive take_first calls succeeds and lowers len() by 1; then
\* len() = 0, is_empty() holds, the next take_first fails, and offset() = n
\* for a based view.
C6_ZstCountdown ==
    (elem = "unit" /\ hist.origin = "new" /\ hist.firsts = hist.taken)
    => /\ len(cur) = Len(slice) - hist.firsts
       /\ is_empty(cur) <=> hist.firsts = Len(slice)
       /\ IsBased(cur) => offset(cur) = hist.firsts
       /\ last.op = "new" => len(cur) = Len(slice)
       /\ last.op = "take_first"
          => /\ last.res = "Ok" <=> hist.firsts <= Len(slice) /\ len(last.pre) > 0
             /\ last.res = "Ok" => len(cur) = len(last.pre) - 1
             /\ last.res = "Err" => hist.firsts = Len(slice) /\ len(cur) = 0

C6_Witness ==
    /\ elem = "unit"
    /\ hist.origin = "new"
    /\ IsBased(cur)
    /\ Len(slice) = MaxLen
    /\ hist.firsts = MaxLen
    /\ hist.taken = MaxLen
    /\ last.op = "take_first"
    /\ last.res = "Err"
    /\ offset(cur) = MaxLen

\* C7: io::Read::read on a byte view with r bytes left and a destination of
\* capacity c never fails or panics: it returns Ok(min(r, c)), copies the
\* first min(r, c) bytes left to the start of the destination and advances
\* the view by min(r, c); so [1, 2, 3] read into 2 bytes gives 2, 1, 0.
C7_ReadTakesMin ==
    last.op = "read"
    => LET r == len(last.pre)
           m == Min(r, last.arg)
       IN /\ last.res = "Ok"
          /\ last.out.n = m
          /\ Prefix(last.out.buf, m) = Prefix(as_slice(last.pre), m)
          /\ len(cur) = r - m
          /\ as_slice(cur) = Drop(as_slice(last.pre), m)

\* C8: io::BufRead::consume(n) on a byte view or a based byte view advances
\* it by exactly n bytes when n <= len(), as a successful take_front(n) does,
\* and panics when n > len(), consuming nothing and clamping nothing.
C8_Consume ==
    last.op = "consume"
    => IF last.arg <= len(last.pre)
       THEN /\ last.res = "Ok"
            /\ len(cur) = len(last.pre) - last.arg
            /\ as_slice(cur) = Drop(as_slice(last.pre), last.arg)
            /\ cur = take_front(last.pre, last.arg).self
            /\ IsBased(last.pre) => offset(cur) = offset(last.pre) + last.arg
       ELSE /\ last.res = "Panic"
            /\ last.err = UnexpectedEndError(last.arg, len(last.pre))
            /\ cur = last.pre

C8_Witness ==
    /\ last.op = "consume"
    /\ last.res = "Panic"
    /\ IsBased(cur)
    /\ hist.taken > 0
    /\ len(cur) > 0
    /\ last.arg = len(cur) + 1

RECURSIVE Pow256(_)
Pow256(n) == IF n = 0 THEN 1 ELSE 256 * Pow256(n - 1)

\* the order a taker reads in: big-endian, or else little-endian
ReadsBig(order) == order = "big" \/ (order = "native" /\ endian = "big")

\* the integer of width w that bytes[1..w] encode in the order given, as the
\* sum of its bytes by place value, the top byte counting as negative from
\* 128 on for a signed type
RECURSIVE Encoded(_, _, _, _, _)
Encoded(bytes, w, big, signed, j) ==
    IF j > w
    THEN 0
    ELSE LET place == IF big THEN w - j ELSE j - 1
             b == IF signed /\ place = w - 1 /\ bytes[j] >= 128
                  THEN bytes[j] - 256
                  ELSE bytes[j]
         IN Encoded(bytes, w, big, signed, j + 1) + b * Pow256(place)

\* the integers whose value is within -2^31 .. 2^31 - 1
Fits(x) ==
    \/ Len(x.be) <= 2
    \/ Len(x.be) = 4 /\ (Signed(x.ty) \/ x.be[1] < 128)

\* C9: for every integer type of width w and each order, take_<type>_<order>
\* on a byte view of at least w bytes consumes exactly the first w bytes and
\* returns the integer they encode in that order ([1, 2, 3, 4] is 0x01020304
\* for take_u32_be and 0x04030201 for take_u32_le, the view left empty); on
\* fewer than w bytes it fails with needed() = w and len() = the length and
\* consumes nothing.  A based view does the same, its offset() growing by w
\* on success and by 0 on failure.
C9_TakeInt ==
    last.op = "take_int"
    => LET ty == last.arg.ty
           w == size_of(ty)
           big == ReadsBig(last.arg.order)
           bytes == as_slice(last.pre)
       IN IF len(last.pre) >= w
          THEN /\ last.res = "Ok"
               /\ len(cur) = len(last.pre) - w
               /\ as_slice(cur) = Drop(bytes, w)
               /\ IsBased(last.pre) => offset(cur) = offset(last.pre) + w
               /\ last.out.ty = ty
               /\ Len(last.out.be) = w
               /\ \A j \in 1..w :
                     last.out.be[j] = bytes[IF big THEN j ELSE w + 1 - j]
               /\ Fits(last.out)
                  => int_value(last.out) = Encoded(bytes, w, big, Signed(ty), 1)
               /\ (bytes = <<1, 2, 3, 4>> /\ ty = "u32")
                  => /\ int_value(last.out) = IF big THEN 16909060 ELSE 67305985
                     /\ is_empty(cur)
          ELSE /\ last.res = "Err"
               /\ last.err = UnexpectedEndError(w, len(last.pre))
               /\ cur = last.pre
               /\ IsBased(last.pre) => offset(cur) = offset(last.pre)

C9_Witness ==
    /\ last.op = "take_int"
    /\ last.res = "Ok"
    /\ last.arg = [ty |-> "u32", order |-> "little"]
    /\ as_slice(last.pre) = <<1, 2, 3, 4>>
    /\ IsBased(cur)
    /\ int_value(last.out) = 67305985
    /\ offset(cur) = 4
    /\ is_empty(cur)

\* C10: converting a Tranche in any reachable state into a BasedTranche
\* gives offset() = 0 and the same len() and as_slice(); converting that
\* BasedTranche back gives a Tranche with the contents and length of the
\* original.
C10_Conversions ==
    /\ last.op = "into_based"
       => /\ IsBased(cur) /\ ~IsBased(last.pre)
          /\ offset(cur) = 0
          /\ len(cur) = len(last.pre)
          /\ as_slice(cur) = as_slice(last.pre)
          /\ LET back == AsTranche(Tranche_from(Based(cur)))
             IN /\ len(back) = len(last.pre)
                /\ as_slice(back) = as_slice(last.pre)
    /\ last.op = "into_tranche"
       => /\ ~IsBased(cur) /\ IsBased(last.pre)
          /\ len(cur) = len(last.pre)
          /\ as_slice(cur) = as_slice(last.pre)

C10_Witness ==
    /\ last.op = "into_based"
    /\ elem = "unit"
    /\ hist.origin = "from"
    /\ len(cur) > 0
    /\ len(cur) < Len(slice)

\* C11: iterating a view is repeated take_first: on a view of length n,
\* next() yields Some of the elements in order exactly n times, each call
\* lowering len() by 1 (and raising a based view's offset() by 1), and then
\* None on every later call, the view unchanged; size_hint() is always
\* (len(), Some(len())).
C11_IterNext ==
    /\ size_hint(cur) = <<len(cur), Some(len(cur))>>
    /\ last.op = "next"
       => /\ IF len(last.pre) > 0
             THEN /\ last.out = Some([ptr |-> last.pre.inner.start,
                                      val |-> as_slice(last.pre)[1]])
                  /\ len(cur) = len(last.pre) - 1
                  /\ as_slice(cur) = Tail(as_slice(last.pre))
                  /\ IsBased(last.pre) => offset(cur) = offset(last.pre) + 1
             ELSE /\ last.out = None
                  /\ cur = last.pre
          /\ (hist.origin = "new" /\ hist.firsts = hist.taken)
             => /\ last.out = None <=> len(last.pre) = 0 /\ hist.firsts = Len(slice)
                /\ last.out # None
                   => /\ hist.firsts <= Len(slice)
                      /\ last.out[1].val = slice[hist.firsts]

C11_Witness ==
    /\ last.op = "next"
    /\ last.out = None
    /\ IsBased(cur)
    /\ elem = "usize"
    /\ hist.origin = "new"
    /\ Len(slice) = MaxLen
    /\ hist.firsts = MaxLen
    /\ hist.taken = MaxLen
    /\ offset(cur) = MaxLen
    /\ size_hint(cur) = <<0, Some(0)>>

\* the views alive in a state: the one worked on, and the one the last
\* call returned
ReturnsView == last.op \in {"new", "take_front", "clone", "into_based", "into_tranche", "use"}
Live == {cur} \cup (IF ReturnsView /\ last.res = "Ok" THEN {last.out} ELSE {})

\* the end of the slice in memory
SliceEnd == ptr + Len(slice) * size_of(elem)

\* C12: in every state reachable from new(slice) by take_first, take_front,
\* clone, conversion, read and consume calls, successful or failed, every
\* live view has start <= end and its range [start, end) within the bounds
\* of the slice; no call widens a view or moves its start backwards.
C12_RangeWithinSlice ==
    /\ \A v \in Live :
          /\ v.inner.start <= v.inner.end
          /\ ptr <= v.inner.start
          /\ v.inner.end <= SliceEnd
    /\ \A v \in Live :
          /\ last.pre.inner.start <= v.inner.start
          /\ v.inner.end <= last.pre.inner.end

\* C12 as amended: for a sized element type every live view has
\* start <= end, both on element boundaries of the slice; for a zero-sized
\* element type start stays the pointer of the slice and end is start +
\* len(), wrapping, with len() at most the length of the slice; no call
\* raises a view's len(), moves its start backwards or, for a sized type,
\* its end forwards.
C12_RangeWithinSliceAmended ==
    /\ \A v \in Live :
          IF size_of(elem) = 0
          THEN /\ v.inner.start = ptr
               /\ v.inner.end = wrapping_add(ptr, len(v))
               /\ len(v) <= Len(slice)
          ELSE /\ v.inner.start <= v.inner.end
               /\ ptr <= v.inner.start
               /\ v.inner.end <= SliceEnd
               /\ (v.inner.start - ptr) % size_of(elem) = 0
               /\ (v.inner.end - ptr) % size_of(elem) = 0
    /\ \A v \in Live :
          /\ len(v) <= len(last.pre)
          /\ last.pre.inner.start <= v.inner.start
          /\ size_of(elem) # 0 => v.inner.end <= last.pre.inner.end

C12_Witness ==
    /\ elem = "unit"
    /\ ptr = Modulus - 1
    /\ last.op = "take_first"
    /\ last.res = "Ok"
    /\ len(cur) >= 1
    /\ cur.inner.end < cur.inner.start
    /\ cur.inner.end < last.pre.inner.end

\* C13: offset() is the starting offset of the based tranche it is called
\* on: the BasedTranche a successful take_front(n) returns shares the base
\* of its parent and reports the offset() the parent had just before the
\* call, for every element type, the zero-sized ones included.
C13_PrefixOffset ==
    (last.op = "take_front" /\ last.res = "Ok" /\ IsBased(last.pre))
    => /\ IsBased(last.out)
       /\ last.out.base = last.pre.base
       /\ offset(last.out) = offset(last.pre)

====
